---- MODULE Spec2Model ----
(***************************************************************************)
(* metalscribe: the segment merge of core/merge.py.                        *)
(*                                                                         *)
(* merge_segments is modelled statement by statement: one action per       *)
(* early return, per outer-loop step and per branch of the inner scan.     *)
(* Times are integer milliseconds scaled to small units; an overlap ratio  *)
(* (a Python float quotient of two integers) is kept as the exact fraction *)
(* num/den and compared by cross-multiplication.                           *)
(***************************************************************************)
EXTENDS Integers, Sequences, FiniteSets

\* ------------------------------------------------------------------ bounds
MaxTime == 3        \* time points are 0..MaxTime
MaxT == 2           \* longest transcript list
MaxD == 2           \* longest diarization list, any order
MaxDSorted == 3     \* longest diarization list under the sortedness contract
MaxCalls == 2       \* calls of merge_segments made on the same pair of lists
MaxArg == 3         \* arguments of the overlap calculator are 0..MaxArg
MaxRaw == 4         \* times of a parsed JSON are 0..MaxRaw half-milliseconds
MaxItems == 2       \* longest track / longest segment list of a parsed JSON
MaxTracks == 2      \* most speakers in a parsed diarization JSON
MaxHours == 2       \* timestamps run over the hours 0..MaxHours (and 99, 100)
MaxTimeWork == 1    \* time points of the work-count runs are 0..MaxTimeWork
MaxTWork == 4       \* longest transcript list of the work-count runs
MaxDWork == 5       \* longest diarization list of the work-count runs
MaxSegs == 3        \* longest segment list given to an exporter

Texts == {"t1", "t2"}
Speakers == {"A", "B"}
UNKNOWN == "UNKNOWN"

VARIABLES
    transcript_segments,  \* argument: sequence of TranscriptSegment
    diarize_segments,     \* argument: sequence of DiarizeSegment
    pc,                   \* position in merge_segments
    t,                    \* 1-based position of the outer loop (transcript_seg)
    i,                    \* 0-based inner loop index, as in range(diarize_idx, len)
    diarize_idx,          \* the cursor, 0-based
    best_speaker,
    best_overlap,         \* fraction [num, den]
    merged,               \* the output list being built / returned
    examined,             \* number of inner-loop bodies executed so far
    calls,                \* how many calls of merge_segments have been started
    first_result,         \* what the first call returned, once a second one starts
    fn_in,                \* argument of the parser / formatter under study
    fn_out                \* its return value

vars == <<transcript_segments, diarize_segments, pc, t, i, diarize_idx,
          best_speaker, best_overlap, merged, examined,
          calls, first_result, fn_in, fn_out>>

\* what the statements of merge_segments never touch
aux == <<calls, first_result, fn_in, fn_out>>

None == "none"

\* ------------------------------------------------------------------ data model
Times == 0..MaxTime

\* core/models.py: TranscriptSegment(start_ms, end_ms, text), end_ms >= start_ms
TranscriptSegment ==
    {s \in [start_ms : Times, end_ms : Times, text : Texts] : s.start_ms <= s.end_ms}

\* core/models.py: DiarizeSegment(start_ms, end_ms, speaker), end_ms >= start_ms
DiarizeSegment ==
    {s \in [start_ms : Times, end_ms : Times, speaker : Speakers] : s.start_ms <= s.end_ms}

\* core/models.py: MergedSegment(start_ms, end_ms, text, speaker)
MergedSegment(seg, spk) ==
    [start_ms |-> seg.start_ms, end_ms |-> seg.end_ms, text |-> seg.text, speaker |-> spk]

SeqsUpTo(S, n) == UNION {[1..k -> S] : k \in 0..n}

SortedByStart(s) == \A k \in 1..(Len(s) - 1) : s[k].start_ms <= s[k + 1].start_ms

\* parsers/diarize_parser.py line 53: segments.sort(key=lambda s: s.start_ms),
\* a stable sort, as an insertion sort that keeps equal keys in input order
RECURSIVE InsertByStart(_, _)
InsertByStart(x, s) ==
    IF s = <<>> THEN <<x>>
    ELSE IF x.start_ms <= s[1].start_ms THEN <<x>> \o s
    ELSE <<s[1]>> \o InsertByStart(x, Tail(s))

RECURSIVE SortByEnd(_)
SortByEnd(s) ==
    IF s = <<>> THEN <<>>
    ELSE LET rest == SortByEnd(Tail(s))
             k == Cardinality({n \in 1..Len(rest) : rest[n].end_ms < s[1].end_ms})
         IN  SubSeq(rest, 1, k) \o <<s[1]>> \o SubSeq(rest, k + 1, Len(rest))

RECURSIVE SortByStart(_)
SortByStart(s) ==
    IF s = <<>> THEN <<>> ELSE InsertByStart(s[1], SortByStart(Tail(s)))

\* ------------------------------------------------------------------ overlap ratio
Max(a, b) == IF a >= b THEN a ELSE b
Min(a, b) == IF a <= b THEN a ELSE b

Zero == [num |-> 0, den |-> 1]

\* a > b for fractions with positive denominators
RatioGT(a, b) == a.num * b.den > b.num * a.den

NoOverlapStrict(overlap_start, overlap_end) == overlap_start > overlap_end

\* line 26: `if overlap_start >= overlap_end`
NoOverlap(overlap_start, overlap_end) == overlap_start >= overlap_end

calculate_overlap_ratio_zero_full(transcript_start, transcript_end, diarize_start, diarize_end) ==
    LET overlap_start == Max(transcript_start, diarize_start)
        overlap_end == Min(transcript_end, diarize_end)
        overlap_duration == overlap_end - overlap_start
        transcript_duration == transcript_end - transcript_start
    IN  IF overlap_start > overlap_end THEN Zero
        ELSE IF transcript_duration = 0 THEN [num |-> 1, den |-> 1]
        ELSE [num |-> overlap_duration, den |-> transcript_duration]

calculate_overlap_ratio_no_check(transcript_start, transcript_end, diarize_start, diarize_end) ==
    LET overlap_start == Max(transcript_start, diarize_start)
        overlap_end == Min(transcript_end, diarize_end)
        overlap_duration == overlap_end - overlap_start
        transcript_duration == transcript_end - transcript_start
    IN  IF transcript_duration = 0 THEN Zero
        ELSE [num |-> overlap_duration, den |-> transcript_duration]

calculate_overlap_ratio_by_diarize(transcript_start, transcript_end, diarize_start, diarize_end) ==
    LET overlap_start == Max(transcript_start, diarize_start)
        overlap_end == Min(transcript_end, diarize_end)
        overlap_duration == overlap_end - overlap_start
        diarize_duration == diarize_end - diarize_start
    IN  IF overlap_start >= overlap_end THEN Zero
        ELSE IF diarize_duration = 0 THEN Zero
        ELSE [num |-> overlap_duration, den |-> diarize_duration]

calculate_overlap_ratio(transcript_start, transcript_end, diarize_start, diarize_end) ==
    LET overlap_start == Max(transcript_start, diarize_start)
        overlap_end == Min(transcript_end, diarize_end)
        overlap_duration == overlap_end - overlap_start
        transcript_duration == transcript_end - transcript_start
    IN  IF NoOverlap(overlap_start, overlap_end) THEN Zero
        ELSE IF transcript_duration = 0 THEN Zero
        ELSE [num |-> overlap_duration, den |-> transcript_duration]

\* the return statement calculate_overlap_ratio leaves by: line 27 (no overlap),
\* line 33 (zero transcript duration) or line 35 (the division)
overlap_return(transcript_start, transcript_end, diarize_start, diarize_end) ==
    LET overlap_start == Max(transcript_start, diarize_start)
        overlap_end == Min(transcript_end, diarize_end)
        transcript_duration == transcript_end - transcript_start
    IN  IF NoOverlap(overlap_start, overlap_end) THEN "no_overlap"
        ELSE IF transcript_duration = 0 THEN "zero_duration"
        ELSE "division"

\* ------------------------------------------------------------------ merge_segments
transcript_seg == transcript_segments[t]
diarize_seg == diarize_segments[i + 1]

NoTranscriptInverted == transcript_segments # <<>>

\* `if not transcript_segments`
NoTranscript == transcript_segments = <<>>

\* `if not diarize_segments`
NoDiarize == diarize_segments = <<>>

NoDiarizeResultDropText(ts) ==
    [k \in 1..Len(ts) |-> MergedSegment([ts[k] EXCEPT !.text = ""], UNKNOWN)]

\* the list comprehension of the no-diarization return
NoDiarizeResult(ts) ==
    [k \in 1..Len(ts) |-> MergedSegment(ts[k], UNKNOWN)]

AppendMergedSkipUnknown(m, seg, spk) ==
    IF spk = UNKNOWN THEN m ELSE Append(m, MergedSegment(seg, spk))

AppendMergedFront(m, seg, spk) == <<MergedSegment(seg, spk)>> \o m

\* merged.append(MergedSegment(...))
AppendMerged(m, seg, spk) == Append(m, MergedSegment(seg, spk))

\* `diarize_seg.end_ms < transcript_seg.start_ms`
IsBefore(d, s) == d.end_ms < s.start_ms

IsAfterByEnd(d, s) == d.end_ms > s.end_ms

IsAfterTranscriptStart(d, s) == d.start_ms > s.start_ms

\* `diarize_seg.start_ms > transcript_seg.end_ms`
IsAfter(d, s) == d.start_ms > s.end_ms

BetterOrEqual(overlap, best) == ~RatioGT(best, overlap)

\* `overlap > best_overlap`
Better(overlap, best) == RatioGT(overlap, best)

InRangeOffByOne(k) == k <= Len(diarize_segments)

\* `for i in range(diarize_idx, len(diarize_segments))`: is index k still in the range
InRange(k) == k < Len(diarize_segments)

Locals0 ==
    /\ t = 1
    /\ i = 0
    /\ diarize_idx = 0
    /\ best_speaker = UNKNOWN
    /\ best_overlap = Zero
    /\ merged = <<>>
    /\ examined = 0
    /\ pc = "start"
    /\ calls = 1
    /\ first_result = <<>>
    /\ fn_in = None
    /\ fn_out = None

Init ==
    /\ transcript_segments \in SeqsUpTo(TranscriptSegment, MaxT)
    /\ diarize_segments \in SeqsUpTo(DiarizeSegment, MaxD)
    /\ Locals0

InitSorted ==
    /\ transcript_segments \in {s \in SeqsUpTo(TranscriptSegment, MaxT) : SortedByStart(s)}
    /\ diarize_segments \in {s \in SeqsUpTo(DiarizeSegment, MaxDSorted) : SortedByStart(s)}
    /\ Locals0

\* longer sorted lists over few time points, one text and one speaker: the inputs
\* on which the amount of scanning is measured
InitWork ==
    /\ transcript_segments \in
          {s \in SeqsUpTo({x \in TranscriptSegment :
                               x.end_ms <= MaxTimeWork /\ x.text = "t1"}, MaxTWork) :
              SortedByStart(s)}
    /\ diarize_segments \in
          {s \in SeqsUpTo({x \in DiarizeSegment :
                               x.end_ms <= MaxTimeWork /\ x.speaker = "A"}, MaxDWork) :
              SortedByStart(s)}
    /\ Locals0

\* lines 55-56: empty transcript, return []
ReturnEmpty ==
    /\ pc = "start"
    /\ NoTranscript
    /\ merged' = <<>>
    /\ pc' = "done"
    /\ UNCHANGED aux
    /\ UNCHANGED <<transcript_segments, diarize_segments, t, i, diarize_idx,
                   best_speaker, best_overlap, examined>>

\* lines 58-68: no diarization, every segment UNKNOWN
ReturnNoDiarize ==
    /\ pc = "start"
    /\ ~NoTranscript
    /\ NoDiarize
    /\ merged' = NoDiarizeResult(transcript_segments)
    /\ pc' = "done"
    /\ UNCHANGED aux
    /\ UNCHANGED <<transcript_segments, diarize_segments, t, i, diarize_idx,
                   best_speaker, best_overlap, examined>>

BeginMergeSortInPlace ==
    /\ pc = "start"
    /\ ~NoTranscript
    /\ ~NoDiarize
    /\ merged' = <<>>
    /\ diarize_idx' = 0
    /\ t' = 1
    /\ pc' = "outer"
    /\ diarize_segments' = SortByStart(diarize_segments)
    /\ UNCHANGED aux
    /\ UNCHANGED <<transcript_segments, i, best_speaker, best_overlap, examined>>

BeginMergeKeepCursor ==
    /\ pc = "start"
    /\ ~NoTranscript
    /\ ~NoDiarize
    /\ merged' = <<>>
    /\ t' = 1
    /\ pc' = "outer"
    /\ UNCHANGED aux
    /\ UNCHANGED <<transcript_segments, diarize_segments, i, diarize_idx,
                   best_speaker, best_overlap, examined>>

\* lines 70-71: merged = [], diarize_idx = 0
BeginMerge ==
    /\ pc = "start"
    /\ ~NoTranscript
    /\ ~NoDiarize
    /\ merged' = <<>>
    /\ diarize_idx' = 0
    /\ t' = 1
    /\ pc' = "outer"
    /\ UNCHANGED aux
    /\ UNCHANGED <<transcript_segments, diarize_segments, i,
                   best_speaker, best_overlap, examined>>

OuterNextResetCursor ==
    /\ pc = "outer"
    /\ t <= Len(transcript_segments)
    /\ best_speaker' = UNKNOWN
    /\ best_overlap' = Zero
    /\ diarize_idx' = 0
    /\ i' = 0
    /\ pc' = "inner"
    /\ UNCHANGED aux
    /\ UNCHANGED <<transcript_segments, diarize_segments, t, merged, examined>>

OuterNextNoReset ==
    /\ pc = "outer"
    /\ t <= Len(transcript_segments)
    /\ i' = diarize_idx
    /\ pc' = "inner"
    /\ UNCHANGED aux
    /\ UNCHANGED <<transcript_segments, diarize_segments, t, diarize_idx,
                   best_speaker, best_overlap, merged, examined>>

\* lines 73-79: next transcript segment, reset best, range(diarize_idx, len)
OuterNext ==
    /\ pc = "outer"
    /\ t <= Len(transcript_segments)
    /\ best_speaker' = UNKNOWN
    /\ best_overlap' = Zero
    /\ i' = diarize_idx
    /\ pc' = "inner"
    /\ UNCHANGED aux
    /\ UNCHANGED <<transcript_segments, diarize_segments, t, diarize_idx,
                   merged, examined>>

\* lines 112-113: outer loop exhausted, return merged
ReturnMerged ==
    /\ pc = "outer"
    /\ t > Len(transcript_segments)
    /\ pc' = "done"
    /\ UNCHANGED aux
    /\ UNCHANGED <<transcript_segments, diarize_segments, t, i, diarize_idx,
                   best_speaker, best_overlap, merged, examined>>

\* lines 83-85: the diarization segment ends before the transcript segment
ScanSkip ==
    /\ pc = "inner"
    /\ InRange(i)
    /\ IsBefore(diarize_seg, transcript_seg)
    /\ diarize_idx' = i + 1
    /\ i' = i + 1
    /\ examined' = examined + 1
    /\ UNCHANGED aux
    /\ UNCHANGED <<transcript_segments, diarize_segments, pc, t,
                   best_speaker, best_overlap, merged>>

ScanBreakMovesCursor ==
    /\ pc = "inner"
    /\ InRange(i)
    /\ ~IsBefore(diarize_seg, transcript_seg)
    /\ IsAfter(diarize_seg, transcript_seg)
    /\ diarize_idx' = i
    /\ examined' = examined + 1
    /\ pc' = "append"
    /\ UNCHANGED aux
    /\ UNCHANGED <<transcript_segments, diarize_segments, t, i,
                   best_speaker, best_overlap, merged>>

\* lines 88-89: the diarization segment starts after the transcript segment
ScanBreak ==
    /\ pc = "inner"
    /\ InRange(i)
    /\ ~IsBefore(diarize_seg, transcript_seg)
    /\ IsAfter(diarize_seg, transcript_seg)
    /\ examined' = examined + 1
    /\ pc' = "append"
    /\ UNCHANGED aux
    /\ UNCHANGED <<transcript_segments, diarize_segments, t, i, diarize_idx,
                   best_speaker, best_overlap, merged>>

ScanOverlapNoAdvance ==
    /\ pc = "inner"
    /\ InRange(i)
    /\ ~IsBefore(diarize_seg, transcript_seg)
    /\ ~IsAfter(diarize_seg, transcript_seg)
    /\ LET overlap == calculate_overlap_ratio(transcript_seg.start_ms,
                          transcript_seg.end_ms, diarize_seg.start_ms, diarize_seg.end_ms)
       IN  IF Better(overlap, best_overlap)
           THEN /\ best_overlap' = overlap
                /\ best_speaker' = diarize_seg.speaker
           ELSE UNCHANGED <<best_overlap, best_speaker>>
    /\ examined' = examined + 1
    /\ UNCHANGED aux
    /\ UNCHANGED <<transcript_segments, diarize_segments, pc, t, i, diarize_idx, merged>>

ScanOverlapStopAtFirst ==
    /\ pc = "inner"
    /\ InRange(i)
    /\ ~IsBefore(diarize_seg, transcript_seg)
    /\ ~IsAfter(diarize_seg, transcript_seg)
    /\ LET overlap == calculate_overlap_ratio(transcript_seg.start_ms,
                          transcript_seg.end_ms, diarize_seg.start_ms, diarize_seg.end_ms)
       IN  IF Better(overlap, best_overlap)
           THEN /\ best_overlap' = overlap
                /\ best_speaker' = diarize_seg.speaker
                /\ pc' = "append"
           ELSE UNCHANGED <<best_overlap, best_speaker, pc>>
    /\ i' = i + 1
    /\ examined' = examined + 1
    /\ UNCHANGED aux
    /\ UNCHANGED <<transcript_segments, diarize_segments, t, diarize_idx, merged>>

\* lines 92-101: compute the overlap, keep the strictly better one
ScanOverlap ==
    /\ pc = "inner"
    /\ InRange(i)
    /\ ~IsBefore(diarize_seg, transcript_seg)
    /\ ~IsAfter(diarize_seg, transcript_seg)
    /\ LET overlap == calculate_overlap_ratio(transcript_seg.start_ms,
                          transcript_seg.end_ms, diarize_seg.start_ms, diarize_seg.end_ms)
       IN  IF Better(overlap, best_overlap)
           THEN /\ best_overlap' = overlap
                /\ best_speaker' = diarize_seg.speaker
           ELSE UNCHANGED <<best_overlap, best_speaker>>
    /\ i' = i + 1
    /\ examined' = examined + 1
    /\ UNCHANGED aux
    /\ UNCHANGED <<transcript_segments, diarize_segments, pc, t, diarize_idx, merged>>

\* line 79: range exhausted, the inner loop ends
ScanEnd ==
    /\ pc = "inner"
    /\ ~InRange(i)
    /\ pc' = "append"
    /\ UNCHANGED aux
    /\ UNCHANGED <<transcript_segments, diarize_segments, t, i, diarize_idx,
                   best_speaker, best_overlap, merged, examined>>

\* lines 103-110: append the merged segment, go to the next transcript segment
AppendStep ==
    /\ pc = "append"
    /\ merged' = AppendMerged(merged, transcript_seg, best_speaker)
    /\ t' = t + 1
    /\ pc' = "outer"
    /\ UNCHANGED aux
    /\ UNCHANGED <<transcript_segments, diarize_segments, i, diarize_idx,
                   best_speaker, best_overlap, examined>>

\* the caller calls merge_segments again with the same two lists; the locals of
\* the finished call are left as they were, the new call has to set what it reads
CallAgain ==
    /\ pc = "done"
    /\ calls < MaxCalls
    /\ calls' = calls + 1
    /\ first_result' = IF calls = 1 THEN merged ELSE first_result
    /\ examined' = 0
    /\ pc' = "start"
    /\ UNCHANGED <<transcript_segments, diarize_segments, t, i, diarize_idx,
                   best_speaker, best_overlap, merged, fn_in, fn_out>>

Next ==
    \/ ReturnEmpty
    \/ ReturnNoDiarize
    \/ BeginMerge
    \/ OuterNext
    \/ ReturnMerged
    \/ ScanSkip
    \/ ScanBreak
    \/ ScanOverlap
    \/ ScanEnd
    \/ AppendStep

\* every pair of lists within the bounds, sorted or not
Spec == Init /\ [][Next]_vars

\* the documented contract: both lists ascending by start_ms
SpecSorted == InitSorted /\ [][Next]_vars

\* the documented contract on longer lists
SpecWork == InitWork /\ [][Next]_vars

NextTwice ==
    \/ Next
    \/ CallAgain

\* repeated calls on the same inputs
SpecTwice == Init /\ [][NextTwice]_vars

\* a second call whose diarization list has one more segment: a segment that
\* overlaps no transcript segment, put at a place that keeps the list sorted by
\* start_ms; the first call's result is kept for comparison
InitInsert ==
    /\ transcript_segments \in
          {s \in SeqsUpTo({x \in TranscriptSegment : x.text = "t1"}, MaxT) :
              SortedByStart(s)}
    /\ diarize_segments \in {s \in SeqsUpTo(DiarizeSegment, MaxD) : SortedByStart(s)}
    /\ Locals0

InsertAt(ds, p, x) == SubSeq(ds, 1, p) \o <<x>> \o SubSeq(ds, p + 1, Len(ds))

CallWithExtra ==
    /\ pc = "done"
    /\ calls = 1
    /\ \E x \in DiarizeSegment, p \in 0..Len(diarize_segments) :
          /\ \A k \in 1..Len(transcript_segments) :
                calculate_overlap_ratio(transcript_segments[k].start_ms,
                    transcript_segments[k].end_ms, x.start_ms, x.end_ms) = Zero
          /\ SortedByStart(InsertAt(diarize_segments, p, x))
          /\ diarize_segments' = InsertAt(diarize_segments, p, x)
    /\ calls' = calls + 1
    /\ first_result' = merged
    /\ examined' = 0
    /\ pc' = "start"
    /\ UNCHANGED <<transcript_segments, t, i, diarize_idx,
                   best_speaker, best_overlap, merged, fn_in, fn_out>>

NextInsert ==
    \/ Next
    \/ CallWithExtra

SpecInsert == InitInsert /\ [][NextInsert]_vars

\* ------------------------------------------------------------------ pure functions
\* The parsers, the overlap calculator and the SRT formatter are functions of their
\* argument: fn_in is drawn by Init, one action applies the function.
\* an absent key, outside the range of the times
Missing == 0 - 1

\* merge_segments is not running
Idle ==
    /\ transcript_segments = <<>>
    /\ diarize_segments = <<>>
    /\ t = 1
    /\ i = 0
    /\ diarize_idx = 0
    /\ best_speaker = UNKNOWN
    /\ best_overlap = Zero
    /\ merged = <<>>
    /\ examined = 0
    /\ calls = 0
    /\ first_result = <<>>
    /\ fn_out = None
    /\ pc = "call"

mergeVars == <<transcript_segments, diarize_segments, t, i, diarize_idx,
               best_speaker, best_overlap, merged, examined, calls, first_result>>

Returned == pc = "returned"

\* ---- calculate_overlap_ratio on any four non-negative integers
Args == 0..MaxArg

InitRatio ==
    /\ fn_in \in [transcript_start : Args, transcript_end : Args,
                  diarize_start : Args, diarize_end : Args]
    /\ Idle

CallRatio ==
    /\ pc = "call"
    /\ fn_out' = calculate_overlap_ratio(fn_in.transcript_start, fn_in.transcript_end,
                                         fn_in.diarize_start, fn_in.diarize_end)
    /\ pc' = "returned"
    /\ UNCHANGED <<mergeVars, fn_in>>

NextRatio == CallRatio

SpecRatio == InitRatio /\ [][NextRatio]_vars

\* ---- parse_diarize_output
\* A time of the JSON is a float of seconds; it is modelled in half-milliseconds,
\* so that int(x * 1000) is a truncation and not the identity.
Raw == 0..MaxRaw

\* `int(start * 1000)`
ToMs(x) == x \div 2

\* one element of a track: with or without the "segment" key; "start" and "end"
\* may be absent from the segment
TrackItem ==
    {[has_segment |-> FALSE, start |-> Missing, end |-> Missing]}
        \cup [has_segment : {TRUE}, start : Raw \cup {Missing}, end : Raw \cup {Missing}]

\* the speakers of annotation.tracks in the order of the JSON object, each once
SpeakerOrders ==
    {o \in SeqsUpTo(Speakers, MaxTracks) : \A a, b \in 1..Len(o) : a # b => o[a] # o[b]}

\* the list of one speaker
ItemLists == SeqsUpTo(TrackItem, MaxItems)

\* data of json.load: without "annotation", without "tracks", or with tracks
IsDiarizeJson(data) ==
    \/ data = [kind |-> "no_annotation", tracks |-> <<>>]
    \/ data = [kind |-> "no_tracks", tracks |-> <<>>]
    \/ \E o \in SpeakerOrders : \E its \in [1..Len(o) -> ItemLists] :
            data = [kind |-> "tracks",
                    tracks |-> [n \in 1..Len(o) |-> [speaker |-> o[n], items |-> its[n]]]]

\* lines 38-48: one DiarizeSegment from one item
ItemSegment(speaker, item) ==
    LET start == IF item.start = Missing THEN 0 ELSE item.start
        end == IF item.end = Missing THEN start ELSE item.end
    IN  [start_ms |-> ToMs(start), end_ms |-> ToMs(end), speaker |-> speaker]

\* lines 36-48: the items of one track that have a "segment" key, in order
RECURSIVE TrackSegments(_, _)
TrackSegments(speaker, items) ==
    IF items = <<>> THEN <<>>
    ELSE (IF items[1].has_segment THEN <<ItemSegment(speaker, items[1])>> ELSE <<>>)
            \o TrackSegments(speaker, Tail(items))

\* lines 35-48: all tracks, in the order of the JSON object
RECURSIVE AllTrackSegments(_)
AllTrackSegments(tracks) ==
    IF tracks = <<>> THEN <<>>
    ELSE TrackSegments(tracks[1].speaker, tracks[1].items) \o AllTrackSegments(Tail(tracks))

parse_diarize_output(data) ==
    IF data.kind = "no_annotation"
    THEN [raised |-> "ValueError", segments |-> <<>>]
    ELSE [raised |-> None, segments |-> SortByStart(AllTrackSegments(data.tracks))]

InitDiarizeParse ==
    /\ IsDiarizeJson(fn_in)
    /\ Idle

CallParseDiarize ==
    /\ pc = "call"
    /\ fn_out' = parse_diarize_output(fn_in)
    /\ pc' = "returned"
    /\ UNCHANGED <<mergeVars, fn_in>>

NextDiarizeParse == CallParseDiarize

SpecDiarizeParse == InitDiarizeParse /\ [][NextDiarizeParse]_vars

\* ---- parse_whisper_output
\* texts as they stand in the JSON, before strip()
RawTexts == {"", " ", " t1", "t1", "[BLANK_AUDIO]"}

\* `.strip()`
Strip(x) == CASE x = " " -> "" [] x = " t1" -> "t1" [] OTHER -> x

\* `text.startswith("[BLANK_AUDIO]")`
IsBlankAudio(x) == x = "[BLANK_AUDIO]"

\* one segment of the JSON: "from"/"start", "to"/"end" (either may be absent), "text"
WhisperItem == [start : Raw \cup {Missing}, end : Raw \cup {Missing}, text : RawTexts]

\* the shapes told apart by lines 32, 49, 64 and 79
WhisperJson ==
    [format : {"transcription", "segments", "list"}, items : SeqsUpTo(WhisperItem, MaxItems)]
        \cup {[format |-> "invalid", items |-> <<>>]}

\* lines 35-38: offsets in integer milliseconds, taken as they are
OffsetSegment(item) ==
    LET start_ms == IF item.start = Missing THEN 0 ELSE item.start
        end_ms == IF item.end = Missing THEN start_ms ELSE item.end
    IN  [start_ms |-> start_ms, end_ms |-> end_ms, text |-> Strip(item.text)]

\* lines 52-62 and 67-77: float seconds, int(x * 1000)
SecondsSegment(item) ==
    LET start == IF item.start = Missing THEN 0 ELSE item.start
        end == IF item.end = Missing THEN start ELSE item.end
    IN  [start_ms |-> ToMs(start), end_ms |-> ToMs(end), text |-> Strip(item.text)]

\* lines 34-48: the "transcription" loop
RECURSIVE TranscriptionSegments(_)
TranscriptionSegments(items) ==
    IF items = <<>> THEN <<>>
    ELSE LET seg == OffsetSegment(items[1])
         IN  (IF seg.text # "" /\ ~IsBlankAudio(seg.text) THEN <<seg>> ELSE <<>>)
                \o TranscriptionSegments(Tail(items))

\* lines 51-63 and 66-78: the "segments" loop and the bare-list loop
RECURSIVE SecondsSegments(_)
SecondsSegments(items) ==
    IF items = <<>> THEN <<>>
    ELSE LET seg == SecondsSegment(items[1])
         IN  (IF seg.text # "" THEN <<seg>> ELSE <<>>) \o SecondsSegments(Tail(items))

parse_whisper_output(data) ==
    IF data.format = "transcription"
    THEN [raised |-> None, segments |-> TranscriptionSegments(data.items)]
    ELSE IF data.format \in {"segments", "list"}
    THEN [raised |-> None, segments |-> SecondsSegments(data.items)]
    ELSE [raised |-> "ValueError", segments |-> <<>>]

InitWhisperParse ==
    /\ fn_in \in WhisperJson
    /\ Idle

\* commands/combine.py line 59: transcript_segments = parse_whisper_output(transcript)
CallParseWhisper ==
    /\ pc = "call"
    /\ fn_out' = parse_whisper_output(fn_in)
    /\ pc' = "returned"
    /\ UNCHANGED <<mergeVars, fn_in>>

NextWhisperParse == CallParseWhisper

SpecWhisperParse == InitWhisperParse /\ [][NextWhisperParse]_vars

\* ---- exporters/srt_exporter.py: format_timestamp
\* the inputs: every minute, and the edges of the other fields
TimestampInputs ==
    {h * 3600000 + m * 60000 + s * 1000 + r :
        h \in (0..MaxHours) \cup {99, 100}, m \in 0..59,
        s \in {0, 1, 30, 59}, r \in {0, 1, 9, 10, 99, 100, 500, 999}}

Digit(n) == <<"0", "1", "2", "3", "4", "5", "6", "7", "8", "9">>[n + 1]

\* the decimal digits of n >= 0, as the `d` presentation writes them
RECURSIVE Decimal(_)
Decimal(n) == IF n < 10 THEN <<Digit(n)>> ELSE Decimal(n \div 10) \o <<Digit(n % 10)>>

\* the `0w` of a format spec: zeros on the left up to width w, never a cut
RECURSIVE ZeroPad(_, _)
ZeroPad(s, w) == IF Len(s) >= w THEN s ELSE ZeroPad(<<"0">> \o s, w)

format_timestamp_minutes_total(ms) ==
    LET total_seconds == ms \div 1000
        milliseconds == ms % 1000
        hours == total_seconds \div 3600
        minutes == total_seconds \div 60
        seconds == total_seconds % 60
    IN  ZeroPad(Decimal(hours), 2) \o <<":">> \o ZeroPad(Decimal(minutes), 2) \o <<":">>
            \o ZeroPad(Decimal(seconds), 2) \o <<",">> \o ZeroPad(Decimal(milliseconds), 3)

\* the string returned, as its sequence of characters
format_timestamp(ms) ==
    LET total_seconds == ms \div 1000
        milliseconds == ms % 1000
        hours == total_seconds \div 3600
        minutes == (total_seconds % 3600) \div 60
        seconds == total_seconds % 60
    IN  ZeroPad(Decimal(hours), 2) \o <<":">> \o ZeroPad(Decimal(minutes), 2) \o <<":">>
            \o ZeroPad(Decimal(seconds), 2) \o <<",">> \o ZeroPad(Decimal(milliseconds), 3)

InitTimestamp ==
    /\ fn_in \in TimestampInputs
    /\ Idle

CallFormatTimestamp ==
    /\ pc = "call"
    /\ fn_out' = format_timestamp(fn_in)
    /\ pc' = "returned"
    /\ UNCHANGED <<mergeVars, fn_in>>

NextTimestamp == CallFormatTimestamp

SpecTimestamp == InitTimestamp /\ [][NextTimestamp]_vars

\* ---- exporters/markdown_exporter.py: export_markdown
\* the file is the sequence of the strings written, each string the sequence of
\* its pieces
MdTimes == {0, 3661000}

MdSegment ==
    {x \in [start_ms : MdTimes, end_ms : MdTimes, text : Texts,
            speaker : Speakers \cup {UNKNOWN}] : x.start_ms <= x.end_ms}

MdTitles == {None, "", "Teste"}

\* None and the empty dict are both the empty list of items
MdMetadata == {<<>>, <<[key |-> "file", value |-> "a.wav"]>>}

format_timestamp_md(ms) ==
    LET total_seconds == ms \div 1000
        hours == total_seconds \div 3600
        minutes == (total_seconds % 3600) \div 60
        seconds == total_seconds % 60
    IN  IF hours > 0
        THEN ZeroPad(Decimal(hours), 2) \o <<":">> \o ZeroPad(Decimal(minutes), 2)
                 \o <<":">> \o ZeroPad(Decimal(seconds), 2)
        ELSE ZeroPad(Decimal(minutes), 2) \o <<":">> \o ZeroPad(Decimal(seconds), 2)

\* lines 41-44
MdHeader(title) ==
    IF title # None /\ title # "" THEN << <<"# ", title, "\n\n">> >>
    ELSE << <<"# Transcrição\n\n">> >>

RECURSIVE MdItems(_)
MdItems(items) ==
    IF items = <<>> THEN <<>>
    ELSE << <<"- **", Head(items).key, "**: ", Head(items).value, "\n">> >>
             \o MdItems(Tail(items))

\* lines 47-51
MdMetadataBlock(metadata) ==
    IF metadata # <<>>
    THEN << <<"## Metadados\n\n">> >> \o MdItems(metadata) \o << <<"\n">> >>
    ELSE <<>>

\* lines 54-57
MdDuration(segments) ==
    IF segments # <<>>
    THEN LET total_duration == segments[Len(segments)].end_ms - segments[1].start_ms
         IN  << <<"**Duração total**: ">> \o format_timestamp_md(total_duration)
                    \o <<"\n\n">> >>
    ELSE <<>>

MdRule == <<"---\n\n">>

NeedsHeadingEverySegment(speaker, current_speaker) == TRUE

\* line 65: `if seg.speaker != current_speaker`
NeedsHeading(speaker, current_speaker) == speaker # current_speaker

\* lines 66-68
MdHeading(seg, current_speaker) ==
    (IF current_speaker # None THEN << <<"\n">> >> ELSE <<>>)
        \o << <<"## ", seg.speaker, "\n\n">> >>

\* lines 71-72
MdLine(seg) ==
    <<"**[">> \o format_timestamp_md(seg.start_ms) \o <<"]** ", seg.text, "\n\n">>

\* lines 62-72: the loop over the segments, current_speaker carried along
RECURSIVE MdBody(_, _)
MdBody(segments, current_speaker) ==
    IF segments = <<>> THEN <<>>
    ELSE LET seg == Head(segments)
             new == NeedsHeading(seg.speaker, current_speaker)
         IN  (IF new THEN MdHeading(seg, current_speaker) ELSE <<>>)
                 \o <<MdLine(seg)>>
                 \o MdBody(Tail(segments), IF new THEN seg.speaker ELSE current_speaker)

export_markdown(segments, title, metadata) ==
    MdHeader(title) \o MdMetadataBlock(metadata) \o MdDuration(segments)
        \o <<MdRule>> \o MdBody(segments, None)

InitMarkdown ==
    /\ fn_in \in [segments : SeqsUpTo(MdSegment, MaxSegs), title : MdTitles,
                  metadata : MdMetadata]
    /\ Idle

CallExportMarkdown ==
    /\ pc = "call"
    /\ fn_out' = export_markdown(fn_in.segments, fn_in.title, fn_in.metadata)
    /\ pc' = "returned"
    /\ UNCHANGED <<mergeVars, fn_in>>

NextMarkdown == CallExportMarkdown

SpecMarkdown == InitMarkdown /\ [][NextMarkdown]_vars

\* ------------------------------------------------------------------ reference notions
\* length of the intersection of a transcript segment and a diarization segment
OverlapLen(s, d) == Max(0, Min(s.end_ms, d.end_ms) - Max(s.start_ms, d.start_ms))

\* the greatest intersection length over the whole diarization list
BestLen(s, ds) ==
    IF ds = <<>> THEN 0
    ELSE LET lens == {OverlapLen(s, ds[j]) : j \in 1..Len(ds)}
         IN  CHOOSE m \in lens : \A n \in lens : n <= m

\* the indexes of the diarization segments that reach the greatest positive overlap
BestIdx(s, ds) ==
    {j \in 1..Len(ds) : OverlapLen(s, ds[j]) > 0 /\ OverlapLen(s, ds[j]) = BestLen(s, ds)}

LowestIn(S) == CHOOSE j \in S : \A k \in S : j <= k

Done == pc = "done"

\* ------------------------------------------------------------------ claims

\* C1: for lists sorted by start_ms, every merged segment carries the speaker of a
\* diarization segment of greatest overlap among ALL diarization segments, and
\* UNKNOWN exactly when that greatest overlap is 0 (exhaustive best-overlap search).
C1_ExhaustiveBest ==
    \A k \in 1..Len(merged) :
        LET best == BestIdx(transcript_segments[k], diarize_segments)
        IN  IF best = {} THEN merged[k].speaker = UNKNOWN
            ELSE \E j \in best : merged[k].speaker = diarize_segments[j].speaker

\* C2: the returned list has exactly as many elements as the transcript list, for
\* every transcript list and every diarization list (empty, sorted or unsorted).
C2_LengthPreserved == Done => Len(merged) = Len(transcript_segments)

C2_Witness ==
    /\ Done
    /\ Len(transcript_segments) = 2
    /\ Len(diarize_segments) = 2
    /\ ~SortedByStart(diarize_segments)
    /\ examined > 0

\* C3: output[k] has the start_ms, end_ms and text of transcript_segments[k]; the
\* output is in transcript order, whatever the diarization list.
C3_FieldFidelity ==
    /\ Len(merged) <= Len(transcript_segments)
    /\ \A k \in 1..Len(merged) :
        /\ merged[k].start_ms = transcript_segments[k].start_ms
        /\ merged[k].end_ms = transcript_segments[k].end_ms
        /\ merged[k].text = transcript_segments[k].text

C3_Witness ==
    /\ Done
    /\ Len(merged) = 2
    /\ transcript_segments[1].start_ms > transcript_segments[2].start_ms
    /\ transcript_segments[1].text # transcript_segments[2].text
    /\ Len(diarize_segments) = 2
    /\ ~SortedByStart(diarize_segments)

\* C4: when several diarization segments share the greatest positive overlap with a
\* transcript segment, the merged speaker is that of the lowest-indexed one.
C4_TieBreakLowestIndex ==
    \A k \in 1..Len(merged) :
        LET best == BestIdx(transcript_segments[k], diarize_segments)
        IN  Cardinality(best) >= 2 =>
                merged[k].speaker = diarize_segments[LowestIn(best)].speaker

\* C5: with an empty diarization list and a non-empty transcript list the result is
\* one segment per transcript segment, speaker UNKNOWN, the other fields copied.
C5_NoDiarizeFallback ==
    (Done /\ diarize_segments = <<>> /\ transcript_segments # <<>>) =>
        /\ Len(merged) = Len(transcript_segments)
        /\ \A k \in 1..Len(merged) :
            merged[k] = [start_ms |-> transcript_segments[k].start_ms,
                         end_ms |-> transcript_segments[k].end_ms,
                         text |-> transcript_segments[k].text,
                         speaker |-> UNKNOWN]

C5_Witness ==
    /\ Done
    /\ diarize_segments = <<>>
    /\ Len(transcript_segments) = 2
    /\ Len(merged) = 2

\* C6: with an empty transcript list the call returns the empty list at once, for
\* every diarization list: the loops are never entered and nothing is scanned.
C6_EmptyTranscript ==
    transcript_segments = <<>> =>
        /\ pc \in {"start", "done"}
        /\ examined = 0
        /\ Done => merged = <<>>

C6_Witness ==
    /\ Done
    /\ transcript_segments = <<>>
    /\ Len(diarize_segments) = 2
    /\ merged = <<>>

\* C7: a transcript segment with start_ms = end_ms is always merged as UNKNOWN, even
\* when a diarization segment spans or coincides with that instant.
C7_ZeroDurationUnknown ==
    \A k \in 1..Len(merged) :
        transcript_segments[k].start_ms = transcript_segments[k].end_ms =>
            merged[k].speaker = UNKNOWN

C7_Witness ==
    /\ Done
    /\ examined > 0
    /\ \E k \in 1..Len(merged) :
        /\ transcript_segments[k].start_ms = transcript_segments[k].end_ms
        /\ merged[k].speaker = UNKNOWN
        /\ \E j1, j2 \in 1..Len(diarize_segments) :
            /\ diarize_segments[j1].start_ms = transcript_segments[k].start_ms
            /\ diarize_segments[j1].end_ms = transcript_segments[k].end_ms
            /\ diarize_segments[j2].start_ms < transcript_segments[k].start_ms
            /\ diarize_segments[j2].end_ms > transcript_segments[k].end_ms

\* C8: a transcript segment that no diarization segment intersects in positive
\* length (all disjoint from it or touching it at an endpoint) is merged as UNKNOWN.
C8_NoIntersectionUnknown ==
    \A k \in 1..Len(merged) :
        (\A j \in 1..Len(diarize_segments) :
            OverlapLen(transcript_segments[k], diarize_segments[j]) = 0) =>
                merged[k].speaker = UNKNOWN

C8_Witness ==
    /\ Done
    /\ \E k \in 1..Len(merged) :
        /\ transcript_segments[k].start_ms < transcript_segments[k].end_ms
        /\ merged[k].speaker = UNKNOWN
        /\ \A j \in 1..Len(diarize_segments) :
            OverlapLen(transcript_segments[k], diarize_segments[j]) = 0
        /\ \E j1, j2 \in 1..Len(diarize_segments) :
            /\ diarize_segments[j1].start_ms = transcript_segments[k].end_ms
            /\ diarize_segments[j1].end_ms > diarize_segments[j1].start_ms
            /\ diarize_segments[j2].start_ms > transcript_segments[k].end_ms

\* C9: for one transcript segment and a diarization list sorted by start_ms, the
\* merged speaker is that of the diarization segment whose overlap is strictly the
\* largest, wherever it stands in the list; [0,3] with A=[0,2], B=[2,3] gives A.
C9_StrictlyLargestWins ==
    (Done /\ Len(transcript_segments) = 1 /\ SortedByStart(diarize_segments)) =>
        \A j \in 1..Len(diarize_segments) :
            (/\ OverlapLen(transcript_segments[1], diarize_segments[j]) > 0
             /\ \A n \in 1..Len(diarize_segments) \ {j} :
                    OverlapLen(transcript_segments[1], diarize_segments[n])
                        < OverlapLen(transcript_segments[1], diarize_segments[j]))
                => merged[1].speaker = diarize_segments[j].speaker

\* a later segment with the larger coverage has beaten an earlier overlapping one
C9_Witness ==
    /\ Done
    /\ Len(transcript_segments) = 1
    /\ Len(diarize_segments) = 2
    /\ SortedByStart(diarize_segments)
    /\ diarize_segments[1].speaker # diarize_segments[2].speaker
    /\ OverlapLen(transcript_segments[1], diarize_segments[1]) > 0
    /\ OverlapLen(transcript_segments[1], diarize_segments[2])
           > OverlapLen(transcript_segments[1], diarize_segments[1])
    /\ merged[1].speaker = diarize_segments[2].speaker

\* the diarization segments have the boundaries of the transcript segments,
\* contiguous and in the same order
SameBoundaries ==
    /\ Len(diarize_segments) = Len(transcript_segments)
    /\ \A k \in 1..Len(transcript_segments) :
        /\ diarize_segments[k].start_ms = transcript_segments[k].start_ms
        /\ diarize_segments[k].end_ms = transcript_segments[k].end_ms
    /\ \A k \in 1..(Len(transcript_segments) - 1) :
        transcript_segments[k].end_ms = transcript_segments[k + 1].start_ms

\* C10 (as stated): with the same contiguous boundaries in both lists, transcript
\* segment k gets the speaker of diarization segment k.
C10_SameBoundaries ==
    SameBoundaries =>
        \A k \in 1..Len(merged) : merged[k].speaker = diarize_segments[k].speaker

\* C10 (amended): with the same contiguous boundaries in both lists, every transcript
\* segment k of positive duration gets the speaker of diarization segment k; a
\* zero-duration segment gets UNKNOWN.
C10_SameBoundariesPositive ==
    SameBoundaries =>
        \A k \in 1..Len(merged) :
            merged[k].speaker =
                IF transcript_segments[k].start_ms < transcript_segments[k].end_ms
                THEN diarize_segments[k].speaker
                ELSE UNKNOWN

C10_Witness ==
    /\ Done
    /\ SameBoundaries
    /\ Len(merged) = 2
    /\ \A k \in 1..2 : transcript_segments[k].start_ms < transcript_segments[k].end_ms
    /\ diarize_segments[1].speaker # diarize_segments[2].speaker
    /\ merged[1].speaker = diarize_segments[1].speaker
    /\ merged[2].speaker = diarize_segments[2].speaker

\* C11: merge_segments raises nothing for any input shape (empty lists, zero-duration
\* segments, unsorted lists): every index it uses is inside its list, no ratio has
\* a zero denominator, and until it returns there is always a next statement to run.
C11_NoException ==
    /\ pc \in {"start", "outer", "inner", "append", "done"}
    /\ (pc = "inner" /\ InRange(i)) => (i >= 0 /\ (i + 1) \in DOMAIN diarize_segments)
    /\ pc \in {"inner", "append"} => t \in DOMAIN transcript_segments
    /\ best_overlap.den > 0
    /\ pc # "done" => ENABLED Next

C11_Witness ==
    /\ Done
    /\ Len(merged) = 2
    /\ ~SortedByStart(transcript_segments)
    /\ ~SortedByStart(diarize_segments)
    /\ \E k \in 1..2 : transcript_segments[k].start_ms = transcript_segments[k].end_ms
    /\ examined >= 3

\* C12: for lists sorted by start_ms the inner-loop bodies executed in one call,
\* summed over all transcript segments, stay within a linear bound, 2 * (N + M),
\* and so below the product N * M once the lists are long enough.
C12_LinearWork ==
    examined <= 2 * (Len(transcript_segments) + Len(diarize_segments))

\* C13: no statement of merge_segments changes the transcript list or the
\* diarization list (length, order, fields).
C13_InputsUnchanged ==
    [][/\ transcript_segments' = transcript_segments
       /\ diarize_segments' = diarize_segments]_vars

C13_Witness ==
    /\ Done
    /\ Len(transcript_segments) = 2
    /\ Len(diarize_segments) = 2
    /\ ~SortedByStart(diarize_segments)
    /\ diarize_idx > 0
    /\ \E k \in 1..2 : merged[k].speaker # UNKNOWN

\* C14: a second call of merge_segments on the same two lists returns the list the
\* first call returned; nothing left over from the first call (cursor, best match,
\* output list) reaches the second.
C14_Deterministic == (Done /\ calls >= 2) => merged = first_result

C14_Witness ==
    /\ Done
    /\ calls = 2
    /\ Len(merged) = 2
    /\ merged = first_result
    /\ diarize_idx > 0
    /\ \E k \in 1..2 : merged[k].speaker # UNKNOWN

\* C15: calculate_overlap_ratio returns a value in [0, 1] for any four non-negative
\* integers, reversed intervals included: what it divides is never negative and
\* never more than the (positive) transcript duration.
C15_RatioInUnitInterval ==
    Returned => /\ fn_out.den > 0
                /\ 0 <= fn_out.num
                /\ fn_out.num <= fn_out.den

C15_Witness ==
    /\ Returned
    /\ fn_in.transcript_end < fn_in.transcript_start
    /\ fn_in.diarize_start < fn_in.transcript_end
    /\ fn_in.diarize_end >= fn_in.transcript_start
    /\ fn_out = Zero

\* C16: calculate_overlap_ratio returns 0 when max(starts) >= min(ends), and
\* otherwise (min(ends) - max(starts)) / (transcript_end - transcript_start): the
\* divisor is the transcript duration, not the diarization duration or the union.
C16_RatioFormula ==
    Returned =>
        LET lo == Max(fn_in.transcript_start, fn_in.diarize_start)
            hi == Min(fn_in.transcript_end, fn_in.diarize_end)
        IN  IF lo >= hi THEN fn_out.num = 0 /\ fn_out.den # 0
            ELSE /\ fn_out.den # 0
                 /\ fn_out.num * (fn_in.transcript_end - fn_in.transcript_start)
                        = (hi - lo) * fn_out.den

C16_Witness ==
    /\ Returned
    /\ fn_in.diarize_start > fn_in.transcript_start
    /\ fn_in.diarize_end >= fn_in.transcript_end
    /\ fn_in.diarize_start < fn_in.transcript_end
    /\ fn_in.diarize_end - fn_in.diarize_start # fn_in.transcript_end - fn_in.transcript_start
    /\ fn_out.num > 0
    /\ fn_out.num < fn_out.den

\* the track items of the JSON that carry a "segment" key
RECURSIVE CountSegmentItems(_)
CountSegmentItems(tracks) ==
    IF tracks = <<>> THEN 0
    ELSE Cardinality({n \in 1..Len(tracks[1].items) : tracks[1].items[n].has_segment})
            + CountSegmentItems(Tail(tracks))

\* C18: parse_diarize_output returns its segments in non-decreasing start_ms order,
\* whatever the order of the speakers and of the items in their tracks, and returns
\* one DiarizeSegment per track item that has a "segment" key.
C18_DiarizeParseSorted ==
    (Returned /\ fn_out.raised = None) =>
        /\ SortedByStart(fn_out.segments)
        /\ Len(fn_out.segments) = CountSegmentItems(fn_in.tracks)

C18_Witness ==
    /\ Returned
    /\ fn_out.raised = None
    /\ Len(fn_in.tracks) = 2
    /\ Len(fn_out.segments) = 3
    /\ CountSegmentItems(fn_in.tracks) = 3
    /\ \E n \in 1..2 : \E k \in 1..Len(fn_in.tracks[n].items) :
            ~fn_in.tracks[n].items[k].has_segment
    /\ ~SortedByStart(AllTrackSegments(fn_in.tracks))
    /\ fn_out.segments[1].start_ms < fn_out.segments[3].start_ms

\* C17: every speaker of the output is UNKNOWN or the label of a diarization segment
\* of the input that overlaps that output segment in positive length.
C17_SpeakerFromOverlap ==
    \A k \in 1..Len(merged) :
        \/ merged[k].speaker = UNKNOWN
        \/ \E j \in 1..Len(diarize_segments) :
            /\ diarize_segments[j].speaker = merged[k].speaker
            /\ OverlapLen(merged[k], diarize_segments[j]) > 0

C17_Witness ==
    /\ Done
    /\ Len(merged) = 2
    /\ merged[1].speaker \in Speakers
    /\ merged[2].speaker \in Speakers
    /\ merged[1].speaker # merged[2].speaker
    /\ ~SortedByStart(diarize_segments)

\* C19: the list parse_whisper_output returns, which combine passes to
\* merge_segments as the transcript, is in non-decreasing start_ms order.
C19_WhisperParseSorted ==
    (Returned /\ fn_out.raised = None) => SortedByStart(fn_out.segments)

\* the value of a sequence of decimal digits
RECURSIVE DigitsValue(_)
DigitsValue(s) ==
    IF s = <<>> THEN 0
    ELSE 10 * DigitsValue(SubSeq(s, 1, Len(s) - 1))
            + (CHOOSE d \in 0..9 : Digit(d) = s[Len(s)])

\* the four fields read back from HH:MM:SS,mmm
ParseTimestamp(s) ==
    LET c1 == CHOOSE n \in 1..Len(s) : s[n] = ":" /\ \A k \in 1..(n - 1) : s[k] # ":"
        c2 == CHOOSE n \in (c1 + 1)..Len(s) : s[n] = ":" /\ \A k \in (c1 + 1)..(n - 1) : s[k] # ":"
        c3 == CHOOSE n \in 1..Len(s) : s[n] = ","
    IN  [hours |-> DigitsValue(SubSeq(s, 1, c1 - 1)),
         minutes |-> DigitsValue(SubSeq(s, c1 + 1, c2 - 1)),
         seconds |-> DigitsValue(SubSeq(s, c2 + 1, c3 - 1)),
         milliseconds |-> DigitsValue(SubSeq(s, c3 + 1, Len(s)))]

\* C20: for ms >= 0 the fields rendered by format_timestamp have minutes < 60,
\* seconds < 60, milliseconds < 1000 and add up to ms again;
\* 0 gives 00:00:00,000 and 3661500 gives 01:01:01,500.
C20_TimestampFields ==
    Returned =>
        LET f == ParseTimestamp(fn_out)
        IN  /\ f.minutes < 60
            /\ f.seconds < 60
            /\ f.milliseconds < 1000
            /\ f.hours * 3600000 + f.minutes * 60000 + f.seconds * 1000 + f.milliseconds = fn_in
            /\ fn_in = 0 =>
                fn_out = <<"0", "0", ":", "0", "0", ":", "0", "0", ",", "0", "0", "0">>
            /\ fn_in = 3661500 =>
                fn_out = <<"0", "1", ":", "0", "1", ":", "0", "1", ",", "5", "0", "0">>

C20_Witness ==
    /\ Returned
    /\ fn_in = 3661500
    /\ fn_out = <<"0", "1", ":", "0", "1", ":", "0", "1", ",", "5", "0", "0">>

\* C21: pruning is sound. For lists sorted by start_ms, at every point of a call,
\* no diarization segment below the cursor diarize_idx has a positive overlap
\* with the transcript segment being processed or with any later one.
C21_PruningSound ==
    pc \in {"outer", "inner", "append"} =>
        \A j \in 1..diarize_idx :
            \A k \in t..Len(transcript_segments) :
                OverlapLen(transcript_segments[k], diarize_segments[j]) = 0

\* C22: the cursor diarize_idx is 0 when the call starts, never decreases from one
\* step to the next (so it is never reset between transcript segments), stays
\* within 0..len(diarize_segments), each scan starts at the cursor's value, and
\* the index examined is never below the cursor.
C22_CursorMonotone ==
    [][ /\ (pc = "start" => diarize_idx = 0)
        /\ diarize_idx' >= diarize_idx
        /\ diarize_idx' \in 0..Len(diarize_segments)
        /\ (pc = "outer" /\ pc' = "inner" =>
                i' = diarize_idx /\ diarize_idx' = diarize_idx)
        /\ (pc' = "inner" => i' >= diarize_idx')
        /\ (examined' # examined => i >= diarize_idx) ]_vars

\* the second transcript segment is being scanned from a cursor that an earlier
\* scan advanced
C22_Witness ==
    /\ pc = "inner"
    /\ t = 2
    /\ diarize_idx = 1
    /\ i = 2
    /\ examined = 3
    /\ Len(diarize_segments) = 2

\* C23: early stop is sound. With the diarization list sorted by start_ms, when the
\* scan of a transcript segment has stopped at index i because that diarization
\* segment starts after the transcript segment ends, no diarization segment at
\* index i or above has a positive overlap with the transcript segment.
C23_EarlyStopSound ==
    pc = "append" /\ InRange(i) /\ SortedByStart(diarize_segments) =>
        \A j \in (i + 1)..Len(diarize_segments) :
            OverlapLen(transcript_seg, diarize_segments[j]) = 0

\* the scan took a speaker from index 0 and stopped at index 1 of 2
C23_Witness ==
    /\ pc = "append"
    /\ InRange(i)
    /\ i = 1
    /\ Len(diarize_segments) = 2
    /\ SortedByStart(diarize_segments)
    /\ best_speaker # UNKNOWN
    /\ transcript_seg.start_ms < transcript_seg.end_ms

\* C24: the step that stops a scan (diarization segment starting after the
\* transcript segment's end) leaves diarize_idx, best_speaker and best_overlap
\* unchanged; the cursor changes only in the step that meets a diarization segment
\* whose end_ms is strictly below the transcript start_ms, and becomes i + 1.
C24_BreakFrame ==
    [][ /\ (pc = "inner" /\ InRange(i) /\ pc' = "append" =>
                /\ diarize_seg.start_ms > transcript_seg.end_ms
                /\ UNCHANGED <<diarize_idx, best_speaker, best_overlap>>)
        /\ (diarize_idx' # diarize_idx =>
                /\ pc = "inner"
                /\ InRange(i)
                /\ diarize_seg.end_ms < transcript_seg.start_ms
                /\ diarize_idx' = i + 1) ]_vars

\* a scan that advanced the cursor past index 0 has stopped at index 1
C24_Witness ==
    /\ pc = "append"
    /\ InRange(i)
    /\ i = 1
    /\ diarize_idx = 1
    /\ examined = 2

\* C25: for lists sorted by start_ms, a merged segment is UNKNOWN only if no
\* diarization segment of the input has a positive overlap with its transcript
\* segment.
C25_UnknownOnlyWithoutOverlap ==
    \A k \in 1..Len(merged) :
        merged[k].speaker = UNKNOWN =>
            \A j \in 1..Len(diarize_segments) :
                OverlapLen(transcript_segments[k], diarize_segments[j]) = 0

\* the diarization ends never decrease along the list
NonDecreasingEnd(ds) ==
    \A j \in 1..(Len(ds) - 1) : ds[j].end_ms <= ds[j + 1].end_ms

\* C26: when both lists are sorted by start_ms and the diarization ends are
\* non-decreasing too, every merged segment has the speaker an exhaustive search
\* over all diarization segments gives: the lowest-indexed segment of greatest
\* positive overlap, UNKNOWN when there is none.
C26_EqualsExhaustiveSearch ==
    NonDecreasingEnd(diarize_segments) =>
        \A k \in 1..Len(merged) :
            LET best == BestIdx(transcript_segments[k], diarize_segments)
            IN  merged[k].speaker =
                    IF best = {} THEN UNKNOWN
                    ELSE diarize_segments[LowestIn(best)].speaker

\* two transcript segments merged against three turns: the cursor passed the
\* first turn, and two turns tie on the second transcript segment
C26_Witness ==
    /\ Done
    /\ Len(merged) = 2
    /\ Len(diarize_segments) = 3
    /\ NonDecreasingEnd(diarize_segments)
    /\ diarize_idx = 1
    /\ Cardinality(BestIdx(transcript_segments[2], diarize_segments)) = 2
    /\ diarize_segments[2].speaker # diarize_segments[3].speaker
    /\ merged[1].speaker # UNKNOWN

\* C27: a diarization segment that overlaps no transcript segment does not
\* influence the result. After it is inserted at a sorted position of a sorted
\* diarization list, the second call gives every transcript segment the speaker
\* the first call gave it.
C27_IrrelevantSegmentIgnored ==
    Done /\ calls = 2 =>
        /\ Len(merged) = Len(first_result)
        /\ \A k \in 1..Len(merged) : merged[k].speaker = first_result[k].speaker

\* the number of steps a call can still take, at most: one block of
\* len(diarize_segments) + 3 steps for each transcript segment not yet appended
Block == Len(diarize_segments) + 3

Rank ==
    CASE pc = "start" -> (Len(transcript_segments) + 2) * Block
      [] pc = "outer" -> (Len(transcript_segments) + 2 - t) * Block - 1
      [] pc = "inner" -> (Len(transcript_segments) + 1 - t) * Block
                            + (Len(diarize_segments) - i) + 1
      [] pc = "append" -> (Len(transcript_segments) + 1 - t) * Block
      [] OTHER -> 0

\* C28: merge_segments terminates on every pair of finite lists, sorted or not.
\* A call that has not returned can take a step, and every step lowers a
\* non-negative count of the steps left; the outer loop takes
\* one transcript segment per round, and a scan moves its index up by one for each
\* diarization segment it examines, between the cursor and the end of the list.
C28_Terminates ==
    /\ [](~Done => ENABLED Next)
    /\ [][ /\ Rank' < Rank
           /\ Rank' >= 0
           /\ t' \in {t, t + 1}
           /\ t' <= Len(transcript_segments) + 1
           /\ (t' = t + 1 => Len(merged') = t /\ pc = "append")
           /\ (examined' # examined =>
                   /\ examined' = examined + 1
                   /\ i \in diarize_idx..(Len(diarize_segments) - 1)
                   /\ (i' = i + 1 \/ pc' = "append")) ]_vars

\* a call on unsorted lists has returned after examining every diarization
\* segment for every transcript segment
C28_Witness ==
    /\ Done
    /\ Rank = 0
    /\ Len(transcript_segments) = 2
    /\ Len(diarize_segments) = 2
    /\ ~SortedByStart(transcript_segments)
    /\ ~SortedByStart(diarize_segments)
    /\ examined = 4
    /\ Len(merged) = 2

\* C30: calculate_overlap_ratio never divides by zero. Whenever the no-overlap
\* check lets the call through, transcript_end - transcript_start is strictly
\* positive: the zero-duration guard is never the statement that returns, and a
\* zero-length transcript segment is answered 0 by the no-overlap check.
C30_NoDivisionByZero ==
    Returned =>
        LET overlap_start == Max(fn_in.transcript_start, fn_in.diarize_start)
            overlap_end == Min(fn_in.transcript_end, fn_in.diarize_end)
            line == overlap_return(fn_in.transcript_start, fn_in.transcript_end,
                                   fn_in.diarize_start, fn_in.diarize_end)
        IN  /\ ~NoOverlap(overlap_start, overlap_end) =>
                   fn_in.transcript_end - fn_in.transcript_start > 0
            /\ line # "zero_duration"
            /\ line = "division" => fn_out.den > 0
            /\ fn_in.transcript_end = fn_in.transcript_start =>
                   line = "no_overlap" /\ fn_out = Zero

\* a zero-length transcript segment strictly inside a diarization segment
C30_Witness ==
    /\ Returned
    /\ fn_in.transcript_start = fn_in.transcript_end
    /\ fn_in.diarize_start < fn_in.transcript_start
    /\ fn_in.transcript_end < fn_in.diarize_end
    /\ fn_out = Zero

\* the strings export_markdown wrote after the rule that ends the preamble
MdWritten ==
    LET r == CHOOSE p \in 1..Len(fn_out) : fn_out[p] = MdRule
    IN  SubSeq(fn_out, r + 1, Len(fn_out))

IsSpeakerHeading(w) == w[1] = "## "

IsSegmentLine(w) == w[1] = "**["

\* where the k-th segment line stands among the strings written
LinePos(k) ==
    CHOOSE p \in 1..Len(MdWritten) :
        /\ IsSegmentLine(MdWritten[p])
        /\ Cardinality({q \in 1..p : IsSegmentLine(MdWritten[q])}) = k

\* the segments that open a maximal run of equal consecutive speakers
RunStarts(segments) ==
    {k \in 1..Len(segments) : k = 1 \/ segments[k].speaker # segments[k - 1].speaker}

\* C29: export_markdown writes a speaker heading exactly before the first segment
\* and before each segment whose speaker differs from the previous segment's;
\* there are as many headings as maximal runs of equal consecutive speakers, and
\* every segment's text is written once, in input order.
C29_HeadingPerRun ==
    Returned =>
        LET segments == fn_in.segments
            lines == SelectSeq(MdWritten, IsSegmentLine)
            headings == SelectSeq(MdWritten, IsSpeakerHeading)
        IN  /\ Len(lines) = Len(segments)
            /\ \A k \in 1..Len(segments) :
                 /\ lines[k][Len(lines[k]) - 1] = segments[k].text
                 /\ (k \in RunStarts(segments)) <=>
                        /\ LinePos(k) > 1
                        /\ MdWritten[LinePos(k) - 1] = <<"## ", segments[k].speaker, "\n\n">>
            /\ Len(headings) = Cardinality(RunStarts(segments))

\* three segments, the first two of one speaker: two headings for three texts
C29_Witness ==
    /\ Returned
    /\ Len(fn_in.segments) = 3
    /\ fn_in.segments[1].speaker = fn_in.segments[2].speaker
    /\ fn_in.segments[2].speaker # fn_in.segments[3].speaker
    /\ fn_in.segments[1].text = fn_in.segments[2].text
    /\ fn_in.metadata # <<>>
    /\ Len(SelectSeq(MdWritten, IsSpeakerHeading)) = 2

====
